---- MODULE Spec2Model ----
(***************************************************************************)
(* Preprocessing of Sources/CGLFW/shim.h.                                  *)
(*                                                                         *)
(* The header is a list of seventeen lines.  The C preprocessor reads them *)
(* top to bottom, one line per step, keeping a macro table and a stack of  *)
(* open conditional sections.  A line inside a group that is being skipped *)
(* is read and dropped.                                                    *)
(*                                                                         *)
(* The headers named by #include are not part of the repository.  Whether  *)
(* each of them is found on the include path is an input.  Including one   *)
(* that is found is recorded by its name, in order, and its contents reach *)
(* the compiler as one opaque item; the macros such a header defines are   *)
(* its own and the two macros tracked here are taken to be left alone by   *)
(* it.  A header that is searched for and not found stops preprocessing    *)
(* with a fatal error; when the form of the #include has no directory to   *)
(* search at all, GNU cpp reports the header and goes on without it.  An   *)
(* #if whose expression is empty after macro replacement is reported and   *)
(* taken as false.                                                         *)
(***************************************************************************)
EXTENDS Integers, Sequences, FiniteSets

VARIABLES
    pc,           \* number of the line read next; Done once the file is exhausted
    status,       \* "running", or "fatal" once a fatal error has stopped the run
    errors,       \* lines reported as errors that did not stop the run, in order
    macros,       \* the macro table: name -> [defined, body]
    entry,        \* the macro table the file was entered with (never changes)
    found,        \* the headers the search for their #include finds (never changes)
    quoteChain,   \* #include "..." has a directory to search (never changes)
    bracketChain, \* #include <...> has a directory to search (never changes)
    ifstack,      \* open conditional sections, innermost first
    included,     \* headers included so far, in order
    output        \* what reaches the compiler, in order: [file, tok]

vars == <<pc, status, errors, macros, entry, found, quoteChain, bracketChain, ifstack,
          included, output>>
env  == <<entry, found, quoteChain, bracketChain>>

\* __APPLE__ is tried undefined and defined as each integer -MaxApple..MaxApple
MaxApple == 2

SHIM == "shim.h"
APPLE == "__APPLE__"
GLFW_INCLUDE_NONE == "GLFW_INCLUDE_NONE"
MacroNames == {APPLE, GLFW_INCLUDE_NONE}

GLFW_H   == "GLFW/glfw3.h"
GL3_H    == "OpenGL/gl3.h"
GL3EXT_H == "OpenGL/gl3ext.h"
GLAD_H   == "glad/glad.h"
GL_H     == "GL/gl.h"
GLEXT_H  == "GL/glext.h"
Headers  == {GLFW_H, GL3_H, GL3EXT_H, GLAD_H, GL_H, GLEXT_H}

\* One line of the file: a directive with its operand, or text with the
\* tokens left once comments are removed.  form is "quote" for #include "h"
\* and "angle" for #include <h>.
Text(toks)     == [kind |-> "text",    name |-> "", form |-> "", tokens |-> toks]
Define(n, rep) == [kind |-> "define",  name |-> n,  form |-> "", tokens |-> rep]
If(n)          == [kind |-> "if",      name |-> n,  form |-> "", tokens |-> <<>>]
Else           == [kind |-> "else",    name |-> "", form |-> "", tokens |-> <<>>]
Endif          == [kind |-> "endif",   name |-> "", form |-> "", tokens |-> <<>>]
Include(h, f)  == [kind |-> "include", name |-> h,  form |-> f,  tokens |-> <<>>]

\* ---- variants of the file used to test the sensitivity of the properties
\* the #define written after the conditional section instead of before it
ProgramDefineLast ==
    << Text(<<>>),
       Text(<<>>),
       Text(<<>>),
       If(APPLE),
       Text(<<>>),
       Text(<<>>),
       Include(GLFW_H, "quote"),
       Text(<<>>),
       Include(GL3_H, "angle"),
       Include(GL3EXT_H, "angle"),
       Else,
       Include(GLAD_H, "angle"),
       Include(GLFW_H, "quote"),
       Include(GL_H, "angle"),
       Include(GLEXT_H, "angle"),
       Endif,
       Define(GLFW_INCLUDE_NONE, <<>>) >>

\* the #define written inside the Apple group
ProgramDefineInGroup ==
    << Text(<<>>),
       Text(<<>>),
       Text(<<>>),
       If(APPLE),
       Define(GLFW_INCLUDE_NONE, <<>>),
       Text(<<>>),
       Include(GLFW_H, "quote"),
       Text(<<>>),
       Include(GL3_H, "angle"),
       Include(GL3EXT_H, "angle"),
       Else,
       Include(GLAD_H, "angle"),
       Include(GLFW_H, "quote"),
       Include(GL_H, "angle"),
       Include(GLEXT_H, "angle"),
       Endif,
       Text(<<>>) >>

\* glad included after GLFW in the non-Apple group
ProgramGladLate ==
    << Text(<<>>),
       Define(GLFW_INCLUDE_NONE, <<>>),
       Text(<<>>),
       If(APPLE),
       Text(<<>>),
       Text(<<>>),
       Include(GLFW_H, "quote"),
       Text(<<>>),
       Include(GL3_H, "angle"),
       Include(GL3EXT_H, "angle"),
       Else,
       Include(GLFW_H, "quote"),
       Include(GLAD_H, "angle"),
       Include(GL_H, "angle"),
       Include(GLEXT_H, "angle"),
       Endif,
       Text(<<>>) >>

\* a declaration written on the last line
ProgramWithDecl ==
    << Text(<<>>),
       Define(GLFW_INCLUDE_NONE, <<>>),
       Text(<<>>),
       If(APPLE),
       Text(<<>>),
       Text(<<>>),
       Include(GLFW_H, "quote"),
       Text(<<>>),
       Include(GL3_H, "angle"),
       Include(GL3EXT_H, "angle"),
       Else,
       Include(GLAD_H, "angle"),
       Include(GLFW_H, "quote"),
       Include(GL_H, "angle"),
       Include(GLEXT_H, "angle"),
       Endif,
       Text(<<"int", "shim_loaded", ";">>) >>

\* shim.h, line by line
Program ==
    << Text(<<>>),                          \*  1  // Don't load OpenGL
       Define(GLFW_INCLUDE_NONE, <<>>),     \*  2  #define GLFW_INCLUDE_NONE
       Text(<<>>),                          \*  3
       If(APPLE),                           \*  4  #if __APPLE__
       Text(<<>>),                          \*  5  // Include GLFW's header ...
       Text(<<>>),                          \*  6  // path is provided by ...
       Include(GLFW_H, "quote"),            \*  7  #include "GLFW/glfw3.h"
       Text(<<>>),                          \*  8
       Include(GL3_H, "angle"),             \*  9  #include <OpenGL/gl3.h>
       Include(GL3EXT_H, "angle"),          \* 10  #include <OpenGL/gl3ext.h>
       Else,                                \* 11  #else
       Include(GLAD_H, "angle"),            \* 12  #include <glad/glad.h>
       Include(GLFW_H, "quote"),            \* 13  #include "GLFW/glfw3.h"
       Include(GL_H, "angle"),              \* 14  #include <GL/gl.h>
       Include(GLEXT_H, "angle"),           \* 15  #include <GL/glext.h>
       Endif,                               \* 16  #endif
       Text(<<>>) >>                        \* 17

ProgramLen == Len(Program)
Done == ProgramLen + 1

\* ---- the macro table
NotDefined   == [defined |-> FALSE, body |-> <<>>]
Defined(rep) == [defined |-> TRUE,  body |-> rep]

IsDefined(m, n) == m[n].defined

\* #ifdef semantics: any definition counts as true
IfdefValue(m, n) == IF m[n].defined THEN 1 ELSE 0

\* "#if n" with n a macro whose replacement is empty: no expression is left
IfError(m, n) == m[n].defined /\ m[n].body = <<>>

\* The value of the controlling expression of "#if n": an identifier that is
\* not a macro is replaced by 0, a macro by its (integer) replacement; with
\* no expression left the condition is false.
IfValue(m, n) == IF m[n].defined /\ m[n].body # <<>> THEN m[n].body[1] ELSE 0

\* ---- conditional sections
\* A frame is [active, taken, parent]: the current group is being processed,
\* some group of the section has already been processed, the section itself
\* lies in processed text.
Skipping == ifstack # <<>> /\ ~Head(ifstack).active

IfFrame(v) ==
    [active |-> ~Skipping /\ v # 0, taken |-> ~Skipping /\ v # 0, parent |-> ~Skipping]

\* an #else that opens its group whether or not the #if group was taken
ElseFrameAlways(f) == [f EXCEPT !.active = f.parent, !.taken = TRUE]

\* #else: its group is processed iff no earlier group of the section was
ElseFrame(f) == [f EXCEPT !.active = f.parent /\ ~f.taken, !.taken = TRUE]

Running == status = "running"
AtLine(k) == Running /\ pc \in 1..ProgramLen /\ Program[pc].kind = k

\* ---- header search
\* the form of #include line l has at least one directory to search: for
\* "..." the directory of shim.h (unless -I- turns that off) and every
\* directory of the <...> form; for <...> the directories given for it
HasPath(l) == IF l.form = "quote" THEN quoteChain ELSE bracketChain
\* the header of #include line l is found
Resolves(l) == HasPath(l) /\ l.name \in found

\* ---- the configurations the file may be entered with
AppleConfigs ==
    {NotDefined, Defined(<<>>)} \cup {Defined(<<v>>) : v \in (-MaxApple)..MaxApple}
NoneConfigs  == {NotDefined, Defined(<<>>)}
\* the headers whose #include has a directory to search, given the two chains
Searchable(q, b) ==
    {Program[i].name : i \in {j \in 1..ProgramLen :
        Program[j].kind = "include" /\ (IF Program[j].form = "quote" THEN q ELSE b)}}

Init ==
    /\ pc = 1
    /\ status = "running"
    /\ errors = <<>>
    /\ macros \in {m \in [MacroNames -> AppleConfigs \cup NoneConfigs] :
                      m[APPLE] \in AppleConfigs /\ m[GLFW_INCLUDE_NONE] \in NoneConfigs}
    /\ entry = macros
    /\ bracketChain \in BOOLEAN
    /\ quoteChain \in {q \in BOOLEAN : bracketChain => q}
    /\ found \in SUBSET Searchable(quoteChain, bracketChain)
    /\ ifstack = <<>>
    /\ included = <<>>
    /\ output = <<>>

\* ---- one action per kind of line
\* a line that is no directive, in processed text: its tokens go to the compiler
StepText ==
    /\ AtLine("text") /\ ~Skipping
    /\ output' = output \o [i \in 1..Len(Program[pc].tokens) |->
                               [file |-> SHIM, tok |-> Program[pc].tokens[i]]]
    /\ pc' = pc + 1
    /\ UNCHANGED <<status, errors, macros, env, ifstack, included>>

StepDefine ==
    /\ AtLine("define") /\ ~Skipping
    /\ macros' = [macros EXCEPT ![Program[pc].name] = Defined(Program[pc].tokens)]
    /\ pc' = pc + 1
    /\ UNCHANGED <<status, errors, env, ifstack, included, output>>

\* #include of a header that is found: it is read in place
StepInclude ==
    /\ AtLine("include") /\ ~Skipping
    /\ Resolves(Program[pc])
    /\ included' = Append(included, Program[pc].name)
    /\ output' = Append(output, [file |-> Program[pc].name, tok |-> "contents"])
    /\ pc' = pc + 1
    /\ UNCHANGED <<status, errors, macros, env, ifstack>>

\* #include of a header that is searched for and not found: fatal error, the
\* run stops at this line
StepIncludeFatal ==
    /\ AtLine("include") /\ ~Skipping
    /\ HasPath(Program[pc]) /\ ~Resolves(Program[pc])
    /\ status' = "fatal"
    /\ UNCHANGED <<pc, errors, macros, env, ifstack, included, output>>

\* #include with no directory to search for its form: an error is reported
\* and the run goes on without the header
StepIncludeNoPath ==
    /\ AtLine("include") /\ ~Skipping
    /\ ~HasPath(Program[pc])
    /\ errors' = Append(errors, pc)
    /\ pc' = pc + 1
    /\ UNCHANGED <<status, macros, env, ifstack, included, output>>

\* any line but a conditional directive, inside a skipped group
StepSkipped ==
    /\ Running /\ pc \in 1..ProgramLen /\ Skipping
    /\ Program[pc].kind \in {"text", "define", "include"}
    /\ pc' = pc + 1
    /\ UNCHANGED <<status, errors, macros, env, ifstack, included, output>>

StepIf ==
    /\ AtLine("if")
    /\ ifstack' = <<IfFrame(IF Skipping THEN 0 ELSE IfValue(macros, Program[pc].name))>>
                     \o ifstack
    /\ errors' = IF ~Skipping /\ IfError(macros, Program[pc].name)
                    THEN Append(errors, pc) ELSE errors
    /\ pc' = pc + 1
    /\ UNCHANGED <<status, macros, env, included, output>>

StepElse ==
    /\ AtLine("else") /\ ifstack # <<>>
    /\ ifstack' = <<ElseFrame(Head(ifstack))>> \o Tail(ifstack)
    /\ pc' = pc + 1
    /\ UNCHANGED <<status, errors, macros, env, included, output>>

StepEndif ==
    /\ AtLine("endif") /\ ifstack # <<>>
    /\ ifstack' = Tail(ifstack)
    /\ pc' = pc + 1
    /\ UNCHANGED <<status, errors, macros, env, included, output>>

Next ==
    \/ StepText
    \/ StepDefine
    \/ StepInclude
    \/ StepIncludeFatal
    \/ StepIncludeNoPath
    \/ StepSkipped
    \/ StepIf
    \/ StepElse
    \/ StepEndif

Spec == Init /\ [][Next]_vars

\* ---- helpers for the properties
Range(s) == {s[i] : i \in 1..Len(s)}
Count(s, x) == Cardinality({i \in 1..Len(s) : s[i] = x})

AppleUndefined == ~IsDefined(entry, APPLE)
AppleZero      == IsDefined(entry, APPLE) /\ entry[APPLE].body = <<0>>
AppleEmpty     == IsDefined(entry, APPLE) /\ entry[APPLE].body = <<>>
AppleNonZero   == IsDefined(entry, APPLE) /\ ~AppleZero /\ ~AppleEmpty

\* the headers named between #if and #else, and between #else and #endif
AppleGroup == <<GLFW_H, GL3_H, GL3EXT_H>>
OtherGroup == <<GLAD_H, GLFW_H, GL_H, GLEXT_H>>

\* the run is over: the file is exhausted, or a fatal error stopped it
Terminated == pc = Done \/ status = "fatal"
\* the file was read to its end and nothing was reported
Succeeded == pc = Done /\ status = "running" /\ errors = <<>>
\* every header named by the group that the value of __APPLE__ selects is found
GroupResolvable ==
    \A i \in 1..ProgramLen :
        (Program[i].kind = "include"
            /\ Program[i].name \in Range(IF AppleNonZero THEN AppleGroup ELSE OtherGroup))
        => Resolves(Program[i])
\* an #else has been read
ElseSeen == \E i \in 1..(pc - 1) : Program[i].kind = "else"

\* the preprocessor is about to include GLFW/glfw3.h
AtGLFWInclude == AtLine("include") /\ Program[pc].name = GLFW_H /\ ~Skipping

\* C1: whenever GLFW/glfw3.h is about to be included, in any configuration
\* of __APPLE__, GLFW_INCLUDE_NONE is already defined.
C1_NoneDefinedAtGLFWInclude ==
    AtGLFWInclude => IsDefined(macros, GLFW_INCLUDE_NONE)

\* reached: the non-Apple GLFW include, the macro having been defined by the
\* file itself
C1_Witness ==
    /\ AtGLFWInclude /\ AppleZero /\ included = <<GLAD_H>>
    /\ ~IsDefined(entry, GLFW_INCLUDE_NONE) /\ IsDefined(macros, GLFW_INCLUDE_NONE)

\* C2: with __APPLE__ non-zero, the headers included once preprocessing has
\* completed are exactly GLFW/glfw3.h, OpenGL/gl3.h and OpenGL/gl3ext.h, and
\* none of glad/glad.h, GL/gl.h, GL/glext.h.
C2_AppleHeaders ==
    (Succeeded /\ AppleNonZero) =>
        /\ Range(included) = {GLFW_H, GL3_H, GL3EXT_H}
        /\ Range(included) \cap {GLAD_H, GL_H, GLEXT_H} = {}

C2_Witness ==
    Succeeded /\ AppleNonZero /\ entry[APPLE].body = <<1>> /\ GL3EXT_H \in Range(included)

\* C3: when the Apple branch is not taken (__APPLE__ undefined or zero), the
\* headers included once preprocessing has completed are glad/glad.h,
\* GLFW/glfw3.h, GL/gl.h, GL/glext.h in that order; glad/glad.h, whenever it
\* is on the search path, comes before every other header; and no
\* OpenGL/gl3.h or OpenGL/gl3ext.h is ever included.
C3_OtherHeadersInOrder ==
    ~AppleNonZero =>
        /\ Succeeded => included = <<GLAD_H, GLFW_H, GL_H, GLEXT_H>>
        /\ (bracketChain /\ included # <<>>) => Head(included) = GLAD_H
        /\ Range(included) \cap {GL3_H, GL3EXT_H} = {}

C3_Witness ==
    Succeeded /\ AppleUndefined /\ Len(included) = 4 /\ included[1] = GLAD_H

\* C5: the file contributes no state and no logic: no token of its own
\* reaches the compiler, it changes no macro other than defining
\* GLFW_INCLUDE_NONE (as an empty macro), every line of it is a comment or
\* blank line, the one #define, an #include or a conditional directive, and
\* the only conditional is the single, un-nested #if/#else on __APPLE__.
C5_NoStateNoLogic ==
    /\ \A i \in 1..Len(output) : output[i].file # SHIM
    /\ \A n \in MacroNames \ {GLFW_INCLUDE_NONE} : macros[n] = entry[n]
    /\ macros[GLFW_INCLUDE_NONE] \in {entry[GLFW_INCLUDE_NONE], Defined(<<>>)}
    /\ Len(ifstack) <= 1
    /\ \A i \in 1..ProgramLen :
          /\ Program[i].kind \in {"text", "define", "include", "if", "else", "endif"}
          /\ Program[i].kind = "text" => Program[i].tokens = <<>>
          /\ Program[i].kind = "define" => Program[i].name = GLFW_INCLUDE_NONE
          /\ Program[i].kind = "if" => Program[i].name = APPLE
    /\ \A k \in {"define", "if", "else", "endif"} :
          Cardinality({i \in 1..ProgramLen : Program[i].kind = k}) = 1

\* reached: the whole file read, the define done, all text lines passed, and
\* what reached the compiler is the contents of the four headers
C5_Witness ==
    /\ Succeeded /\ Len(output) = 4
    /\ ~IsDefined(entry, GLFW_INCLUDE_NONE) /\ IsDefined(macros, GLFW_INCLUDE_NONE)

\* C6 as written: in every configuration of __APPLE__ exactly one of the two
\* include groups is processed (never both, never neither), preprocessing
\* always goes on until the #endif has closed the section and the file is
\* exhausted, and GLFW/glfw3.h is included exactly once.
C6_AlwaysReachesEndif ==
    /\ pc # Done => ENABLED Next
    /\ pc = Done =>
          /\ included \in {AppleGroup, OtherGroup}
          /\ Count(included, GLFW_H) = 1
          /\ ifstack = <<>>

\* C6, amended: in every configuration of __APPLE__ headers of at most one
\* group are included and GLFW/glfw3.h at most once; when every header of
\* the selected group is found, exactly one group is processed (never
\* neither), preprocessing goes on until the #endif has closed the section
\* and the file is exhausted, and GLFW/glfw3.h is included exactly once.  A
\* run that stops earlier has stopped at an #include whose header is missing.
C6_ExactlyOneGroup ==
    /\ Range(included) \subseteq Range(AppleGroup) \/ Range(included) \subseteq Range(OtherGroup)
    /\ Count(included, GLFW_H) <= 1
    /\ pc = Done => ifstack = <<>>
    /\ GroupResolvable =>
          /\ pc # Done => ENABLED Next
          /\ pc = Done =>
                /\ included \in {AppleGroup, OtherGroup}
                /\ Count(included, GLFW_H) = 1
    /\ (pc # Done /\ ~ENABLED Next) =>
          /\ status = "fatal" /\ ~GroupResolvable
          /\ Program[pc].kind = "include" /\ ~Resolves(Program[pc])

C6_Witness ==
    /\ pc = Done /\ ifstack = <<>> /\ AppleNonZero /\ GroupResolvable
    /\ Count(included, GLFW_H) = 1 /\ GLAD_H \notin found

\* C7: the branch depends on the value of __APPLE__, not on its being
\* defined: undefined and defined as 0 both select the glad group, and only
\* a non-zero value selects the Apple group.  (Defined with an empty
\* replacement it is neither: the #if is reported and taken as false.)
C7_BranchByValue ==
    /\ ifstack # <<>> => (Head(ifstack).active <=> (AppleNonZero <=> ~ElseSeen))
    /\ Succeeded =>
          /\ (AppleUndefined \/ AppleZero) => (included = OtherGroup)
          /\ (included = AppleGroup) <=> AppleNonZero

\* reached: __APPLE__ defined as 0 and the glad group processed
C7_Witness ==
    Succeeded /\ AppleZero /\ included = OtherGroup

\* C8: GLFW_INCLUDE_NONE is defined unconditionally: the #define is reached
\* outside any conditional section, the macro is defined when the run is
\* over in every configuration, and once defined it stays defined.
C8_NoneAlwaysDefined ==
    /\ [](Terminated => IsDefined(macros, GLFW_INCLUDE_NONE))
    /\ [](AtLine("define") => ifstack = <<>>)
    /\ [][IsDefined(macros, GLFW_INCLUDE_NONE) => IsDefined(macros', GLFW_INCLUDE_NONE)]_vars

C8_Witness ==
    /\ pc = Done /\ AppleUndefined
    /\ ~IsDefined(entry, GLFW_INCLUDE_NONE) /\ IsDefined(macros, GLFW_INCLUDE_NONE)

====
